---------------------------- MODULE Spec2Model ----------------------------
(***************************************************************************)
(* Model of stablecoin_digest.py: the daily digest run (main), the filter  *)
(* pass over one feed (fetch_google_news), timestamp resolution            *)
(* (parse_entry_datetime), title truncation (compact_title) and the        *)
(* hand-off to send_gmail.                                                 *)
(*                                                                         *)
(* Text is a sequence of Unicode code points.  An optional value (a dict   *)
(* .get() or os.getenv() result) is a record [some, s].  Instants are      *)
(* integers counted in hours, which is the unit of hours_back.             *)
(***************************************************************************)
EXTENDS Integers, Sequences, FiniteSets

\* ------------------------------------------------------------------ bounds

\* longest feed that feedparser.parse is taken to return
MaxFeedLen == 2
\* latest instant that appears in a feed; the wall clock reads MaxTime-1 or later
MaxTime == 3
\* longest tail after the blank in the titles handed to the renderer
MaxTail == 3

\* ------------------------------------------------------------------ text

NoneV == [some |-> FALSE, s |-> <<>>]

Str(s) == [some |-> TRUE, s |-> s]

\* `x or ""`
OrEmpty(opt) == IF opt.some THEN opt.s ELSE <<>>

SPACE == 32

ELLIPSIS == 8230

\* str.isspace for the code points used here
IsSpace(c) == c \in {9, 10, 11, 12, 13, 32}

RECURSIVE LStrip(_)
LStrip(s) == IF s # <<>> /\ IsSpace(Head(s)) THEN LStrip(Tail(s)) ELSE s

RECURSIVE RStrip(_)
RStrip(s) ==
    IF s # <<>> /\ IsSpace(s[Len(s)]) THEN RStrip(SubSeq(s, 1, Len(s) - 1)) ELSE s

\* str.strip()
Strip(s) == RStrip(LStrip(s))

\* str.lower() (ASCII letters fold; Hangul syllables have no case)
Lower(s) == [k \in 1..Len(s) |-> IF s[k] \in 65..90 THEN s[k] + 32 ELSE s[k]]

\* `sub in s`
Contains(sub, s) ==
    \E k \in 0..(Len(s) - Len(sub)) : SubSeq(s, k + 1, k + Len(sub)) = sub

\* s[:n] of a Python sequence, negative n included
PySliceTo(s, n) ==
    IF n >= 0
    THEN SubSeq(s, 1, IF n < Len(s) THEN n ELSE Len(s))
    ELSE SubSeq(s, 1, IF Len(s) + n > 0 THEN Len(s) + n ELSE 0)

\* a character survives split-and-join when it is no whitespace, or when it is
\* the first whitespace after a word
KeptByJoin(pair) == ~IsSpace(pair[1]) \/ ~IsSpace(pair[2])

\* " ".join(s.split()): runs of whitespace become one blank, the ends are trimmed
JoinSplit(s) ==
    LET paired == [k \in 1..Len(s) |-> <<s[k], IF k > 1 THEN s[k - 1] ELSE SPACE>>]
        kept == SelectSeq(paired, KeptByJoin)
    IN  RStrip([k \in 1..Len(kept) |-> IF IsSpace(kept[k][1]) THEN SPACE ELSE kept[k][1]])

DefaultMaxChars == 90

\* faulty variant of compact_title: the cut leaves no room for the ellipsis
compact_title_full_cut(title, max_chars) ==
    LET t == JoinSplit(OrEmpty(title))
    IN  IF Len(t) <= max_chars THEN t
        ELSE RStrip(PySliceTo(t, max_chars)) \o <<ELLIPSIS>>

compact_title(title, max_chars) ==
    LET t == JoinSplit(OrEmpty(title))
    IN  IF Len(t) <= max_chars THEN t
        ELSE RStrip(PySliceTo(t, max_chars - 1)) \o <<ELLIPSIS>>

\* ------------------------------------------------------------------ environment

TASK_NAME == <<103, 111, 111, 103, 108, 101, 95, 110, 101, 119, 115, 95, 115,
               116, 97, 98, 108, 101, 99, 111, 105, 110, 95, 100, 97, 105, 108,
               121, 95, 100, 105, 103, 101, 115, 116>>

KEYWORD_KR == <<49828, 53580, 51060, 48660, 53076, 51064>>

KEYWORD_US == <<115, 116, 97, 98, 108, 101, 99, 111, 105, 110>>

\* the defaults main passes for HOURS_BACK and MAX_ITEMS: "24" and "100"
DefaultHoursBackText == <<50, 52>>

DefaultMaxItemsText == <<49, 48, 48>>

MaxItemsCap == 100

EnvNames == {"TASK_NAME", "TO_EMAIL", "FROM_EMAIL", "HOURS_BACK", "MAX_ITEMS",
             "GOOGLE_CLIENT_ID", "GOOGLE_CLIENT_SECRET", "GOOGLE_REFRESH_TOKEN"}

\* faulty variant of get_env: `required` is not looked at
get_env_never_raises(e, name, default, required) ==
    LET v0 == e[name]
        v1 == IF (~v0.some \/ v0.s = <<>>) /\ default.some THEN default ELSE v0
    IN  [raised |-> FALSE, value |-> OrEmpty(v1)]

\* get_env: [raised, value]
get_env(e, name, default, required) ==
    LET v0 == e[name]
        v1 == IF (~v0.some \/ v0.s = <<>>) /\ default.some THEN default ELSE v0
    IN  IF required /\ (~v1.some \/ v1.s = <<>>)
        THEN [raised |-> TRUE, value |-> <<>>]
        ELSE [raised |-> FALSE, value |-> OrEmpty(v1)]

IsDigit(c) == c \in 48..57

RECURSIVE DigitsValue(_)
DigitsValue(s) ==
    IF s = <<>> THEN 0
    ELSE 10 * DigitsValue(SubSeq(s, 1, Len(s) - 1)) + (s[Len(s)] - 48)

\* int(text): surrounding whitespace, an optional sign, then decimal digits;
\* anything else raises ValueError
ParseInt(text) ==
    LET t == Strip(text)
        signed == t # <<>> /\ t[1] \in {43, 45}
        digits == IF signed THEN Tail(t) ELSE t
        ok == digits # <<>> /\ \A k \in 1..Len(digits) : IsDigit(digits[k])
    IN  IF ~ok THEN [raised |-> TRUE, value |-> 0]
        ELSE [raised |-> FALSE,
              value |-> IF signed /\ t[1] = 45 THEN 0 - DigitsValue(digits)
                        ELSE DigitsValue(digits)]

Min(a, b) == IF a < b THEN a ELSE b

Max(a, b) == IF a > b THEN a ELSE b

\* max(1, min(max_items_raw, 100))
ClampMaxItems(raw) == Max(1, Min(raw, MaxItemsCap))

\* ------------------------------------------------------------------ timestamps

\* A timestamp field of a raw entry: missing, the empty string, text that is
\* no date, or a date string reading `local` o'clock, with or without a UTC
\* offset `off`.
Absent == [kind |-> "absent", local |-> 0, aware |-> FALSE, off |-> 0]

EmptyText == [kind |-> "empty", local |-> 0, aware |-> FALSE, off |-> 0]

Junk == [kind |-> "junk", local |-> 0, aware |-> FALSE, off |-> 0]

NaiveDate(t) == [kind |-> "date", local |-> t, aware |-> FALSE, off |-> 0]

AwareDate(t, o) == [kind |-> "date", local |-> t, aware |-> TRUE, off |-> o]

TimestampKeys == <<"published", "updated", "created">>

\* dt_parser.parse(raw), then tzinfo=utc for a naive value, then astimezone(utc)
ParseToUtc(raw) ==
    IF raw.kind # "date" THEN [raised |-> TRUE, t |-> 0]
    ELSE [raised |-> FALSE, t |-> IF raw.aware THEN raw.local - raw.off ELSE raw.local]

RECURSIVE ParseKeysNoCatch(_, _)
ParseKeysNoCatch(raw_entry, keys) ==
    IF keys = <<>> THEN [raised |-> FALSE, some |-> FALSE, t |-> 0]
    ELSE LET raw == raw_entry[Head(keys)]
         IN  IF raw.kind \in {"absent", "empty"}
             THEN ParseKeysNoCatch(raw_entry, Tail(keys))
             ELSE LET r == ParseToUtc(raw)
                  IN  IF r.raised THEN [raised |-> TRUE, some |-> FALSE, t |-> 0]
                      ELSE [raised |-> FALSE, some |-> TRUE, t |-> r.t]

\* faulty variant of parse_entry_datetime: no try/except around the parse
parse_entry_datetime_nocatch(raw_entry) == ParseKeysNoCatch(raw_entry, TimestampKeys)

RECURSIVE ParseKeys(_, _)
ParseKeys(raw_entry, keys) ==
    IF keys = <<>> THEN [raised |-> FALSE, some |-> FALSE, t |-> 0]
    ELSE LET raw == raw_entry[Head(keys)]
         IN  IF raw.kind \in {"absent", "empty"}
             THEN ParseKeys(raw_entry, Tail(keys))
             ELSE LET r == ParseToUtc(raw)
                  IN  IF r.raised THEN ParseKeys(raw_entry, Tail(keys))
                      ELSE [raised |-> FALSE, some |-> TRUE, t |-> r.t]

\* [raised, some, t]: `some` FALSE is the None result
parse_entry_datetime(raw_entry) == ParseKeys(raw_entry, TimestampKeys)

\* ------------------------------------------------------------------ filter pass

RawEntry(title, link, published, updated, created) ==
    [title |-> title, link |-> link, published |-> published,
     updated |-> updated, created |-> created]

\* NewsEntry; feed_pos records where in the feed the entry stood (the source
\* entry has an empty source name throughout)
NewsEntry(title, link, published_at, pos) ==
    [title |-> title, link |-> link, published_at |-> published_at, feed_pos |-> pos]

NoEntry == NewsEntry(<<>>, <<>>, 0, 0)

\* faulty variant of InWindow: entries stamped after now are kept
InWindowNoFutureCheck(published_at, cutoff, now_) == ~(published_at < cutoff)

\* line 97 negated: the entry is kept
InWindow(published_at, cutoff, now_) ==
    ~(published_at < cutoff \/ published_at > now_)

Skip(seen) == [raised |-> FALSE, accept |-> FALSE, seen |-> seen, entry |-> NoEntry]

\* faulty variant of FilterStep: the link is remembered before the other checks run
FilterStepMarkEarly(raw, pos, seen, keyword, cutoff, now_) ==
    LET title == Strip(OrEmpty(raw.title))
        keyword_norm == Lower(Strip(keyword))
        published_at == parse_entry_datetime(raw)
        link == Strip(OrEmpty(raw.link))
        marked == IF link = <<>> THEN seen ELSE seen \cup {link}
    IN  IF link = <<>> \/ link \in seen THEN Skip(seen)
        ELSE IF title = <<>> THEN Skip(marked)
        ELSE IF keyword_norm # <<>> /\ ~Contains(keyword_norm, Lower(title))
             THEN Skip(marked)
        ELSE IF ~published_at.some THEN Skip(marked)
        ELSE IF ~InWindow(published_at.t, cutoff, now_) THEN Skip(marked)
        ELSE [raised |-> FALSE, accept |-> TRUE, seen |-> marked,
              entry |-> NewsEntry(title, link, published_at.t, pos)]

\* one iteration of the loop over feed.entries
FilterStep(raw, pos, seen, keyword, cutoff, now_) ==
    LET title == Strip(OrEmpty(raw.title))
        keyword_norm == Lower(Strip(keyword))
        published_at == parse_entry_datetime(raw)
        link == Strip(OrEmpty(raw.link))
    IN  IF title = <<>> THEN Skip(seen)
        ELSE IF keyword_norm # <<>> /\ ~Contains(keyword_norm, Lower(title))
             THEN Skip(seen)
        ELSE IF published_at.raised
             THEN [raised |-> TRUE, accept |-> FALSE, seen |-> seen, entry |-> NoEntry]
        ELSE IF ~published_at.some THEN Skip(seen)
        ELSE IF ~InWindow(published_at.t, cutoff, now_) THEN Skip(seen)
        ELSE IF link = <<>> \/ link \in seen THEN Skip(seen)
        ELSE [raised |-> FALSE, accept |-> TRUE, seen |-> seen \cup {link},
              entry |-> NewsEntry(title, link, published_at.t, pos)]

\* where e goes in a list sorted newest first
InsertAt(s, k, e) == SubSeq(s, 1, k) \o <<e>> \o SubSeq(s, k + 1, Len(s))

RECURSIVE SortDescUnstable(_)
\* faulty variant of SortDesc: ascending sort read backwards, which turns ties around
SortDescUnstable(s) ==
    IF s = <<>> THEN <<>>
    ELSE LET e == s[Len(s)]
             front == SortDescUnstable(SubSeq(s, 1, Len(s) - 1))
             k == Cardinality({j \in 1..Len(front) :
                               front[j].published_at > e.published_at})
         IN  InsertAt(front, k, e)

RECURSIVE SortDesc(_)
\* entries.sort(key=published_at.timestamp(), reverse=True): list.sort is
\* stable, and reverse=True keeps the original order of equal keys
SortDesc(s) ==
    IF s = <<>> THEN <<>>
    ELSE LET e == s[Len(s)]
             front == SortDesc(SubSeq(s, 1, Len(s) - 1))
             k == Cardinality({j \in 1..Len(front) :
                               front[j].published_at >= e.published_at})
         IN  InsertAt(front, k, e)

\* faulty variant of Truncate: an off-by-one slice
TruncateOneMore(sorted, max_items) == PySliceTo(sorted, max_items + 1)

\* entries[:max_items]
Truncate(sorted, max_items) == PySliceTo(sorted, max_items)

\* faulty variant of Rank: the cap is applied in feed order, before the sort
RankCapFirst(accepted, max_items) ==
    [sorted |-> SortDesc(accepted),
     returned |-> SortDesc(PySliceTo(accepted, max_items))]

\* lines 119-120: sort in place, return the first max_items
Rank(accepted, max_items) ==
    [sorted |-> SortDesc(accepted),
     returned |-> Truncate(SortDesc(accepted), max_items)]

\* faulty variant of NewSeenLinks: the set outlives the call
NewSeenLinksShared(previous) == previous

\* line 82: seen_links starts empty in every call
NewSeenLinks(previous) == {}

\* ------------------------------------------------------------------ main

Jobs == << [tag |-> "KR", keyword |-> KEYWORD_KR],
           [tag |-> "US", keyword |-> KEYWORD_US] >>

NoCfg == [to_email |-> <<>>, from_email |-> <<>>, hours_back |-> 0, max_items |-> 0]

\* main up to the job list: [raised, cfg]
LoadedConfig(e) ==
    LET task_name == get_env(e, "TASK_NAME", Str(TASK_NAME), FALSE)
        to_email == get_env(e, "TO_EMAIL", NoneV, TRUE)
        from_email == get_env(e, "FROM_EMAIL", NoneV, TRUE)
        hours_back == ParseInt(get_env(e, "HOURS_BACK", Str(DefaultHoursBackText), FALSE).value)
        max_items_raw == ParseInt(get_env(e, "MAX_ITEMS", Str(DefaultMaxItemsText), FALSE).value)
    IN  IF \/ task_name.value # TASK_NAME
           \/ to_email.raised \/ from_email.raised
           \/ hours_back.raised \/ max_items_raw.raised
        THEN [raised |-> TRUE, cfg |-> NoCfg]
        ELSE [raised |-> FALSE,
              cfg |-> [to_email |-> to_email.value, from_email |-> from_email.value,
                       hours_back |-> hours_back.value,
                       max_items |-> ClampMaxItems(max_items_raw.value)]]

\* send_gmail lines 202-204: TRUE when one of the three lookups raises
CredentialsMissing(e) ==
    \/ get_env(e, "GOOGLE_CLIENT_ID", NoneV, TRUE).raised
    \/ get_env(e, "GOOGLE_CLIENT_SECRET", NoneV, TRUE).raised
    \/ get_env(e, "GOOGLE_REFRESH_TOKEN", NoneV, TRUE).raised

\* faulty variant of AfterJobError: the loop catches the error and goes on
AfterJobErrorIsolated(j, kind) == [pc |-> "jobs", job |-> j + 1, error |-> kind]

\* an exception raised inside the loop body leaves main: nothing catches it
AfterJobError(j, kind) == [pc |-> "raised", job |-> j, error |-> kind]

\* build_email_body / build_email_html, as far as they depend on the entries
Digest(tag, entries_) ==
    [tag |-> tag, count |-> Len(entries_),
     items |-> [k \in 1..Len(entries_) |->
                  [title |-> compact_title(Str(entries_[k].title), DefaultMaxChars),
                   link |-> entries_[k].link,
                   published_at |-> entries_[k].published_at]]]

\* ------------------------------------------------------------------ inputs

Rep(c, n) == [x \in 1..n |-> c]

TitleMixed == <<83, 116, 97, 98, 108, 101, 99, 111, 105, 110, 32>> \o KEYWORD_KR

TitleUS == <<83, 84, 65, 66, 76, 69, 67, 79, 73, 78>>

TitleKR == <<32>> \o KEYWORD_KR \o <<32>>

TitleBlank == <<32, 32>>

LinkA == <<97>>

LinkB == <<98>>

LinkAPadded == <<32, 97, 32>>

\* the environments main is started in
Envs ==
    { [TASK_NAME |-> tn, TO_EMAIL |-> to, FROM_EMAIL |-> fr, HOURS_BACK |-> hb,
       MAX_ITEMS |-> mi, GOOGLE_CLIENT_ID |-> ci, GOOGLE_CLIENT_SECRET |-> cs,
       GOOGLE_REFRESH_TOKEN |-> rt] :
        tn \in {NoneV, Str(<<120>>)},
        to \in {NoneV, Str(<<116>>)},
        fr \in {Str(<<>>), Str(<<102>>)},
        hb \in {NoneV, Str(<<120>>), Str(<<49>>)},
        mi \in {NoneV, Str(<<49, 120>>), Str(<<48>>)},
        ci \in {NoneV, Str(<<99>>)},
        cs \in {NoneV, Str(<<99>>)},
        rt \in {Str(<<>>), Str(<<99>>)} }

\* complete environments, with the windows and caps the filter pass is run under
FilterEnvs ==
    { [TASK_NAME |-> NoneV, TO_EMAIL |-> Str(<<116>>), FROM_EMAIL |-> Str(<<102>>),
       HOURS_BACK |-> hb, MAX_ITEMS |-> mi, GOOGLE_CLIENT_ID |-> Str(<<99>>),
       GOOGLE_CLIENT_SECRET |-> Str(<<99>>), GOOGLE_REFRESH_TOKEN |-> Str(<<99>>)] :
        hb \in {Str(<<49>>), Str(<<32, 50>>)},
        mi \in {Str(<<48>>), Str(<<50>>), Str(<<50, 53, 48>>)} }

\* the entries of the feeds main is run on
MainEntries ==
    { RawEntry(Str(TitleMixed), Str(LinkA), NaiveDate(MaxTime - 1), Absent, Absent),
      RawEntry(Str(TitleMixed), Str(LinkB), NaiveDate(MaxTime - 2), Absent, Absent),
      RawEntry(Str(TitleUS), Str(LinkA), NaiveDate(MaxTime - 1), Absent, Absent),
      RawEntry(Str(TitleMixed), Str(LinkB), Junk, Absent, EmptyText) }

\* the entries of the feeds one filter pass is run on
RawEntries ==
    { RawEntry(Str(TitleMixed), Str(LinkA), NaiveDate(t), Absent, Absent) :
        t \in 0..MaxTime }
    \cup
    { RawEntry(Str(TitleMixed), Str(LinkB), NaiveDate(t), Absent, Absent) :
        t \in (MaxTime - 2)..(MaxTime - 1) }
    \cup
    { RawEntry(tt, Str(LinkA), NaiveDate(MaxTime - 1), Absent, Absent) :
        tt \in {Str(TitleBlank), Str(TitleUS), Str(TitleKR)} }
    \cup
    { RawEntry(Str(TitleMixed), l, NaiveDate(MaxTime - 1), Absent, Absent) :
        l \in {NoneV, Str(LinkAPadded)} }
    \cup
    { RawEntry(Str(TitleMixed), Str(LinkB), st[1], st[2], st[3]) :
        st \in { <<Junk, AwareDate(MaxTime, 1), Absent>>,
                 <<Absent, EmptyText, NaiveDate(MaxTime - 1)>>,
                 <<Junk, Junk, Junk>>,
                 <<EmptyText, Absent, Absent>>,
                 <<AwareDate(MaxTime - 2, 0 - 1), Junk, NaiveDate(0)>>,
                 <<Junk, NaiveDate(MaxTime + 1), NaiveDate(MaxTime - 1)>> } }

RECURSIVE SeqsUpTo(_, _)
SeqsUpTo(S, n) ==
    IF n = 0 THEN {<<>>}
    ELSE LET shorter == SeqsUpTo(S, n - 1)
         IN  shorter \cup {Append(f, x) : f \in {g \in shorter : Len(g) = n - 1}, x \in S}

\* the titles handed to the renderer: the keyword, a run of letters, a run of
\* blanks and a tail, around the limit of compact_title
LongTitles ==
    { KEYWORD_KR \o Rep(97, n - Len(KEYWORD_KR)) \o Rep(SPACE, j) \o Rep(98, k) :
        n \in (DefaultMaxChars - 4)..(DefaultMaxChars + 1), j \in 0..2, k \in 0..MaxTail }

\* ------------------------------------------------------------------ state

VARIABLES
    env,        \* os.environ after load_dotenv
    pc,         \* "start", "jobs", "loop", "send", "done", "raised"
    error,      \* what was raised: "none", "config", "fetch", "parse", "credentials", "send"
    cfg,        \* to_email, from_email, hours_back, max_items of main
    job,        \* index into Jobs of the job main is at
    now,        \* fetch_google_news: now
    feed,       \* fetch_google_news: feed.entries
    i,          \* fetch_google_news: position of the loop in feed.entries
    seen_links, \* fetch_google_news: seen_links
    entries,    \* fetch_google_news: entries
    result,     \* main: entries, the list fetch_google_news returned
    fetchLog,   \* tags of the jobs whose feed was requested
    sendLog     \* calls of send_gmail: [tag, stage, digest]

vars == <<env, pc, error, cfg, job, now, feed, i, seen_links, entries, result,
          fetchLog, sendLog>>

Keyword == Jobs[job].keyword

\* cutoff = now - timedelta(hours=hours_back)
Cutoff == now - cfg.hours_back

Idle ==
    /\ pc = "start"
    /\ error = "none"
    /\ cfg = NoCfg
    /\ job = 0
    /\ now = 0
    /\ feed = <<>>
    /\ i = 0
    /\ seen_links = {}
    /\ entries = <<>>
    /\ result = <<>>
    /\ fetchLog = <<>>
    /\ sendLog = <<>>

Init == env \in Envs /\ Idle

\* main lines 229-248
LoadConfig ==
    /\ pc = "start"
    /\ LET c == LoadedConfig(env)
       IN  IF c.raised
           THEN /\ pc' = "raised"
                /\ error' = "config"
                /\ UNCHANGED <<cfg, job>>
           ELSE /\ pc' = "jobs"
                /\ cfg' = c.cfg
                /\ job' = 1
                /\ UNCHANGED error
    /\ UNCHANGED <<env, now, feed, i, seen_links, entries, result, fetchLog, sendLog>>

\* the wall clock never runs backwards between two jobs
ClockReadings == {t \in (MaxTime - 1)..MaxTime : t >= now}

\* fetch_google_news lines 79-85, the feed drawn from the entries in `universe`
FetchFeedFrom(universe) ==
    /\ pc = "jobs"
    /\ job \in 1..Len(Jobs)
    /\ fetchLog' = Append(fetchLog, Jobs[job].tag)
    /\ \E t \in ClockReadings : now' = t
    /\ seen_links' = NewSeenLinks(seen_links)
    /\ entries' = <<>>
    /\ \/ /\ \E f \in SeqsUpTo(universe, MaxFeedLen) : feed' = f
          /\ i' = 1
          /\ pc' = "loop"
          /\ UNCHANGED <<job, error>>
       \/ LET a == AfterJobError(job, "fetch")
          IN  /\ pc' = a.pc
              /\ job' = a.job
              /\ error' = a.error
              /\ UNCHANGED <<feed, i>>
    /\ UNCHANGED <<env, cfg, result, sendLog>>

FetchFeed == FetchFeedFrom(MainEntries)

FetchRichFeed == FetchFeedFrom(RawEntries)

\* fetch_google_news lines 86-117, one entry
FilterEntry ==
    /\ pc = "loop"
    /\ i <= Len(feed)
    /\ LET step == FilterStep(feed[i], i, seen_links, Keyword, Cutoff, now)
       IN  IF step.raised
           THEN LET a == AfterJobError(job, "parse")
                IN  /\ pc' = a.pc
                    /\ job' = a.job
                    /\ error' = a.error
                    /\ UNCHANGED <<i, seen_links, entries>>
           ELSE /\ seen_links' = step.seen
                /\ entries' = IF step.accept THEN Append(entries, step.entry) ELSE entries
                /\ i' = i + 1
                /\ UNCHANGED <<pc, job, error>>
    /\ UNCHANGED <<env, cfg, now, feed, result, fetchLog, sendLog>>

\* fetch_google_news lines 119-120 and the return to main line 251
SortTruncate ==
    /\ pc = "loop"
    /\ i > Len(feed)
    /\ LET r == Rank(entries, cfg.max_items)
       IN  /\ entries' = r.sorted
           /\ result' = r.returned
    /\ pc' = "send"
    /\ UNCHANGED <<env, error, cfg, job, now, feed, i, seen_links, fetchLog, sendLog>>

\* main lines 252-256: render, then send_gmail
RenderSend ==
    /\ pc = "send"
    /\ LET d == Digest(Jobs[job].tag, result)
           call(stage) == [tag |-> Jobs[job].tag, stage |-> stage, digest |-> d]
       IN  IF CredentialsMissing(env)
           THEN LET a == AfterJobError(job, "credentials")
                IN  /\ sendLog' = Append(sendLog, call("refused"))
                    /\ pc' = a.pc
                    /\ job' = a.job
                    /\ error' = a.error
           ELSE \/ /\ sendLog' = Append(sendLog, call("delivered"))
                   /\ pc' = "jobs"
                   /\ job' = job + 1
                   /\ UNCHANGED error
                \/ LET a == AfterJobError(job, "send")
                   IN  /\ sendLog' = Append(sendLog, call("failed"))
                       /\ pc' = a.pc
                       /\ job' = a.job
                       /\ error' = a.error
    /\ UNCHANGED <<env, cfg, now, feed, i, seen_links, entries, result, fetchLog>>

\* the loop over jobs is exhausted: main returns
Finish ==
    /\ pc = "jobs"
    /\ job > Len(Jobs)
    /\ pc' = "done"
    /\ UNCHANGED <<env, error, cfg, job, now, feed, i, seen_links, entries, result,
                   fetchLog, sendLog>>

Next ==
    \/ LoadConfig
    \/ FetchFeed
    \/ FilterEntry
    \/ SortTruncate
    \/ RenderSend
    \/ Finish

Spec == Init /\ [][Next]_vars

\* One call of fetch_google_news on feeds drawn from RawEntries: the call of
\* the first job, or the call of the second after the first job delivered the
\* digest of an empty feed.
InitFilter ==
    /\ env \in FilterEnvs
    /\ pc = "jobs"
    /\ error = "none"
    /\ cfg = LoadedConfig(env).cfg
    /\ feed = <<>>
    /\ seen_links = {}
    /\ entries = <<>>
    /\ result = <<>>
    /\ \/ /\ job = 1
          /\ now = 0
          /\ i = 0
          /\ fetchLog = <<>>
          /\ sendLog = <<>>
       \/ /\ job = 2
          /\ now = MaxTime - 1
          /\ i = 1
          /\ fetchLog = <<"KR">>
          /\ sendLog = <<[tag |-> "KR", stage |-> "delivered", digest |-> Digest("KR", <<>>)]>>

NextFilter ==
    \/ FetchRichFeed
    \/ FilterEntry
    \/ SortTruncate

SpecFilter == InitFilter /\ [][NextFilter]_vars

\* The first job with a feed of one entry whose title is drawn from LongTitles,
\* from the return of feedparser.parse to the call of send_gmail.
InitRender ==
    /\ env \in FilterEnvs
    /\ pc = "loop"
    /\ error = "none"
    /\ cfg = LoadedConfig(env).cfg
    /\ job = 1
    /\ now = MaxTime - 1
    /\ \E t \in LongTitles :
          feed = <<RawEntry(Str(t), Str(LinkA), NaiveDate(MaxTime - 1), Absent, Absent)>>
    /\ i = 1
    /\ seen_links = {}
    /\ entries = <<>>
    /\ result = <<>>
    /\ fetchLog = <<"KR">>
    /\ sendLog = <<>>

NextRender ==
    \/ FilterEntry
    \/ SortTruncate
    \/ RenderSend

SpecRender == InitRender /\ [][NextRender]_vars

\* ------------------------------------------------------------------ properties

InPass == pc \in {"loop", "send"}

\* what parse_entry_datetime is to return: the first of published, updated,
\* created that is a date, as a UTC instant
IsDate(field) == field.kind = "date"

Utc(field) == IF field.aware THEN field.local - field.off ELSE field.local

HasInstant(raw) == IsDate(raw.published) \/ IsDate(raw.updated) \/ IsDate(raw.created)

FirstInstant(raw) ==
    IF IsDate(raw.published) THEN Utc(raw.published)
    ELSE IF IsDate(raw.updated) THEN Utc(raw.updated)
    ELSE Utc(raw.created)

TrimmedLink(raw) == Strip(OrEmpty(raw.link))

\* the title, keyword, timestamp and recency checks of the current pass
PassesChecks(raw) ==
    /\ Strip(OrEmpty(raw.title)) # <<>>
    /\ Contains(Lower(Strip(Keyword)), Lower(Strip(OrEmpty(raw.title))))
    /\ HasInstant(raw)
    /\ Cutoff <= FirstInstant(raw)
    /\ FirstInstant(raw) <= now

\* positions of the feed the loop has gone through
Processed == 1..(i - 1)

AcceptedPositions == {entries[k].feed_pos : k \in 1..Len(entries)}

ReturnedPositions == {result[k].feed_pos : k \in 1..Len(result)}

\* C1 (as amended): every entry accepted in a filter pass has
\* cutoff <= published_at <= now, for the now read at the start of the pass;
\* an entry stamped exactly at the cutoff is accepted, one stamped after now
\* is not.
C1_Window ==
    InPass =>
        /\ \A k \in 1..Len(entries) :
              Cutoff <= entries[k].published_at /\ entries[k].published_at <= now
        /\ \A p \in Processed :
              (HasInstant(feed[p]) /\ FirstInstant(feed[p]) > now)
                  => p \notin AcceptedPositions

\* C1 as stated: the lower bound is strict.
C1_Original ==
    InPass =>
        \A k \in 1..Len(entries) :
            Cutoff < entries[k].published_at /\ entries[k].published_at <= now

C1_Witness ==
    /\ pc = "send"
    /\ \E k \in 1..Len(entries) : entries[k].published_at = Cutoff
    /\ \E p \in 1..Len(feed) : HasInstant(feed[p]) /\ FirstInstant(feed[p]) > now

\* C2: within one pass the links of the accepted entries are pairwise
\* distinct, and the entry accepted for a link is the first entry of the feed
\* that passes the checks and carries that link; entries failing a check do
\* not use up their link.
C2_FirstOccurrence ==
    InPass =>
        /\ \A j, k \in 1..Len(entries) : j # k => entries[j].link # entries[k].link
        /\ AcceptedPositions =
              {p \in Processed :
                  /\ PassesChecks(feed[p])
                  /\ TrimmedLink(feed[p]) # <<>>
                  /\ \A q \in 1..(p - 1) :
                        PassesChecks(feed[q]) => TrimmedLink(feed[q]) # TrimmedLink(feed[p])}
        /\ \A k \in 1..Len(entries) :
              entries[k].link = TrimmedLink(feed[entries[k].feed_pos])

C2_Witness ==
    /\ pc = "send"
    /\ \E p, q \in 1..Len(feed) :
          /\ p < q
          /\ ~PassesChecks(feed[p])
          /\ TrimmedLink(feed[p]) = TrimmedLink(feed[q])
          /\ q \in AcceptedPositions

Terminated == ~ENABLED Next

HandedToSend(tag) == \E k \in 1..Len(sendLog) : sendLog[k].tag = tag

Fetched(tag) == \E k \in 1..Len(fetchLog) : fetchLog[k] = tag

\* C3 (as amended): an error raised by the fetch step or by send_gmail leaves
\* main and ends the run; when it is raised in the KR job, the US feed is
\* never requested and no US digest is handed to send_gmail.
C3_FailureEndsRun ==
    error \in {"fetch", "credentials", "send"} =>
        /\ pc = "raised"
        /\ Terminated
        /\ job = 1 => (~Fetched("US") /\ ~HandedToSend("US"))

\* C3 as stated: after a failure of the KR job the US job is still fetched
\* and handed to the send capability before the run is over.
C3_Original ==
    (Terminated /\ job = 1 /\ error \in {"fetch", "credentials", "send"}) =>
        (Fetched("US") /\ HandedToSend("US"))

C3_Witness == pc = "raised" /\ job = 1 /\ error = "send" /\ Len(result) > 0

Unset(name) == ~env[name].some \/ env[name].s = <<>>

NotNumeric(name) == ~Unset(name) /\ ParseInt(env[name].s).raised

InvalidParameters ==
    \/ Unset("TO_EMAIL") \/ Unset("FROM_EMAIL")
    \/ NotNumeric("HOURS_BACK") \/ NotNumeric("MAX_ITEMS")

MissingCredential ==
    \/ Unset("GOOGLE_CLIENT_ID") \/ Unset("GOOGLE_CLIENT_SECRET")
    \/ Unset("GOOGLE_REFRESH_TOKEN")

MailApiCalled == \E k \in 1..Len(sendLog) : sendLog[k].stage # "refused"

\* C4 (as amended): with a missing recipient or sender or a non-numeric window
\* or cap the run aborts before any job: no feed is requested and send_gmail
\* is never called.  A missing credential is found only inside send_gmail of
\* the first job: the KR feed has been requested by then, no message reaches
\* the mail API, and the US job never starts.
C4_ConfigurationAbort ==
    /\ InvalidParameters =>
          /\ fetchLog = <<>>
          /\ sendLog = <<>>
          /\ pc \in {"start", "raised"}
    /\ MissingCredential =>
          /\ ~MailApiCalled
          /\ ~Fetched("US")
          /\ job <= 1
          /\ pc \notin {"done"}

\* C4 as stated: any missing or invalid parameter, a credential included,
\* aborts the run before a feed is requested or a send is made.
C4_Original ==
    (InvalidParameters \/ MissingCredential) =>
        (fetchLog = <<>> /\ ~MailApiCalled)

C4_Witness ==
    /\ MissingCredential
    /\ ~InvalidParameters
    /\ pc = "raised"
    /\ error = "credentials"
    /\ fetchLog = <<"KR">>

\* C5: the returned list is sorted by published_at, newest first, and entries
\* with equal published_at keep the order they had in the feed.
C5_SortedStable ==
    pc = "send" =>
        \A j, k \in 1..Len(result) :
            j < k =>
                /\ result[j].published_at >= result[k].published_at
                /\ result[j].published_at = result[k].published_at
                      => result[j].feed_pos < result[k].feed_pos

C5_Witness ==
    /\ pc = "send"
    /\ Len(result) >= 2
    /\ result[1].published_at = result[2].published_at

\* C6: the cap main passes lies in 1..100 and the returned list holds exactly
\* min(cap, number of accepted entries) entries.
C6_Count ==
    pc = "send" =>
        /\ cfg.max_items \in 1..MaxItemsCap
        /\ Len(result) = Min(cfg.max_items, Len(entries))
        /\ Len(result) <= cfg.max_items

C6_Witness ==
    /\ pc = "send"
    /\ Len(entries) > cfg.max_items
    /\ Len(result) = cfg.max_items

\* C7: timestamp resolution never raises into the filter pass; the instant of
\* an accepted entry is that of the first of published, updated, created that
\* parses; an entry none of whose fields parses is left out, and the entries
\* after it are still evaluated.
C7_TimestampResolution ==
    /\ error # "parse"
    /\ InPass =>
          /\ \A k \in 1..Len(entries) :
                /\ HasInstant(feed[entries[k].feed_pos])
                /\ entries[k].published_at = FirstInstant(feed[entries[k].feed_pos])
          /\ \A p \in Processed :
                /\ ~HasInstant(feed[p]) => p \notin AcceptedPositions
                /\ ( /\ PassesChecks(feed[p])
                     /\ TrimmedLink(feed[p]) # <<>>
                     /\ \A q \in 1..(p - 1) : TrimmedLink(feed[q]) # TrimmedLink(feed[p]) )
                      => p \in AcceptedPositions
    /\ pc = "send" => i = Len(feed) + 1

C7_Witness ==
    /\ pc = "send"
    /\ \E p, q \in 1..Len(feed) :
          /\ p < q
          /\ feed[p].published = Junk /\ ~HasInstant(feed[p])
          /\ feed[q].published = Junk /\ HasInstant(feed[q])
          /\ q \in AcceptedPositions

\* the whitespace-collapsed, trimmed form of the title of the k-th entry
Collapsed(k) == JoinSplit(result[k].title)

Rendered(k) == sendLog[Len(sendLog)].digest.items[k].title

\* C8 (as amended): a title whose collapsed form is longer than 90 characters
\* is rendered as the first 89 characters of that form, trailing whitespace
\* dropped, then the ellipsis: 90 characters, or 89 when the 89th character
\* of the collapsed form is a blank; a shorter title is rendered as its
\* collapsed form.
C8_Truncation ==
    (sendLog # <<>> /\ pc \in {"jobs", "raised"}) =>
        \A k \in 1..Len(result) :
            IF Len(Collapsed(k)) > DefaultMaxChars
            THEN /\ Rendered(k)[Len(Rendered(k))] = ELLIPSIS
                 /\ Len(Rendered(k)) =
                       (IF IsSpace(Collapsed(k)[DefaultMaxChars - 1])
                        THEN DefaultMaxChars - 1 ELSE DefaultMaxChars)
                 /\ SubSeq(Rendered(k), 1, Len(Rendered(k)) - 1) =
                       SubSeq(Collapsed(k), 1, Len(Rendered(k)) - 1)
            ELSE Rendered(k) = Collapsed(k)

\* C8 as stated: every title longer than 90 characters is rendered in exactly
\* 90 characters.
C8_Original ==
    (sendLog # <<>> /\ pc \in {"jobs", "raised"}) =>
        \A k \in 1..Len(result) :
            IF Len(Collapsed(k)) > DefaultMaxChars
            THEN /\ Rendered(k)[Len(Rendered(k))] = ELLIPSIS
                 /\ Len(Rendered(k)) = DefaultMaxChars
            ELSE Rendered(k) = Collapsed(k)

C8_Witness ==
    /\ sendLog # <<>>
    /\ pc = "jobs"
    /\ Len(result) = 1
    /\ Len(Collapsed(1)) > DefaultMaxChars
    /\ Len(Rendered(1)) = DefaultMaxChars - 1

\* C9: seen_links is empty when a job's filter pass starts, and in the pass
\* of the US job every entry that passes that job's checks has its link
\* among the accepted ones, also when the KR job accepted the same link.
C9_NoSharedDedup ==
    /\ (pc = "loop" /\ i = 1) => seen_links = {}
    /\ pc = "send" =>
          \A p \in 1..Len(feed) :
              (PassesChecks(feed[p]) /\ TrimmedLink(feed[p]) # <<>>)
                  => \E k \in 1..Len(entries) : entries[k].link = TrimmedLink(feed[p])

C9_Witness ==
    /\ pc = "send"
    /\ job = 2
    /\ sendLog # <<>>
    /\ \E k \in 1..Len(entries) :
          \E m \in 1..Len(sendLog[1].digest.items) :
              sendLog[1].digest.items[m].link = entries[k].link

\* C10: the cap is applied after the whole feed is filtered and sorted: no
\* accepted entry that is left out is newer than a returned one, wherever in
\* the feed it stood.
C10_MostRecentKept ==
    pc = "send" =>
        /\ ReturnedPositions \subseteq AcceptedPositions
        /\ \A j \in 1..Len(entries) :
              entries[j].feed_pos \notin ReturnedPositions =>
                  \A k \in 1..Len(result) :
                      entries[j].published_at <= result[k].published_at

C10_Witness ==
    /\ pc = "send"
    /\ \E j \in 1..Len(entries) :
          /\ entries[j].feed_pos \notin ReturnedPositions
          /\ \E k \in 1..Len(result) :
                /\ entries[j].feed_pos < result[k].feed_pos
                /\ entries[j].published_at < result[k].published_at

=============================================================================
